---- MODULE Spec2Model ----
(***************************************************************************)
(* Model of yaost's build pipeline (src/yaost/project.py): the part        *)
(* registry (add_part), description emission (build_scad), the cached      *)
(* artifact build (build_stl, _read_cache, _write_cache, _get_files_hash)  *)
(* and the file system they act on.  One build_stl call is one action: the *)
(* method is synchronous and single threaded, so other actors only get to  *)
(* change files between two calls.                                         *)
(*                                                                         *)
(* The other entry points have a specification each over the same state:   *)
(* SpecRun (run and its guard), SpecWatch (watch and real_scad_generator), *)
(* SpecScad (build_scad by itself), SpecHash (_get_files_hash on pairs of  *)
(* files) and SpecCache (build_stl on the cache files it can find).  In a  *)
(* specification the variables of the others keep their initial values.    *)
(*                                                                         *)
(* Bytes are numbers 0..255, file contents and strings are sequences of    *)
(* bytes.  sha256 is modelled as an ideal (collision free) digest: the     *)
(* digest of a byte stream is the stream itself.                           *)
(***************************************************************************)
EXTENDS Integers, Sequences, FiniteSets, TLC

VARIABLES parts, scad, stl, cacheFile, lastRun, prev, ret, scad0, stl0, cache0, runs, edits, adds, faults, ex

\* the driver (Project.run): the class attribute, the call stack of run, the
\* command line of the process and what was dispatched
VARIABLES single_run_guard, stack, argv, dispatched, rlog

\* the rebuild watcher (Project.watch): the statement of the try body watch is
\* at, the running call of real_scad_generator, the child process, the
\* ModuleWatcher object, the arguments, and the rebuild attempts made
VARIABLES wpc, cb, child, mw, wargs, wexit, wlog

\* the description emitter (Project.build_scad called by itself): the
\* resolution parameters of the project and what the calls did
VARIABLES cfg, emit

\* _get_files_hash called on pairs of files: the contents of the pairs and
\* the values returned
VARIABLES hin, hout

buildVars == <<parts, scad, stl, cacheFile, lastRun, prev, ret, scad0, stl0, cache0, runs, edits, adds, faults, ex>>
runVars == <<single_run_guard, stack, argv, dispatched, rlog>>
watchVars == <<wpc, cb, child, mw, wargs, wexit, wlog>>
emitVars == <<cfg, emit>>
hashVars == <<hin, hout>>
\* everything the build pipeline's operations leave alone
driverVars == <<runVars, watchVars, emitVars, hashVars>>

vars == <<buildVars, driverVars>>

(***************************************************************************)
(* Bounds of the model.                                                    *)
(***************************************************************************)
NumGeoms == 2
MaxRuns == 3
MaxEdits == 2
MaxAdds == 3
MaxFaults == 1
MaxSteps == 6
NumProjects == 2
MaxCalls == 4
MaxAttempts == 3
MaxChunks == 2

(***************************************************************************)
(* Names, geometry handles and byte strings.                               *)
(***************************************************************************)
Bolt == <<98, 111, 108, 116>>
Nut == <<110, 117, 116>>
IdentBolt == <<98, 111, 108, 116>>
IdentNut == <<78, 117, 116>>
Names == {Bolt, Nut}
Idents == {IdentBolt, IdentNut}
Geoms == 1..NumGeoms

\* name_or_method.__name__.lower().replace('_', '-')
LowerByte(b) == IF b >= 65 /\ b <= 90 THEN b + 32 ELSE b
DeriveName(ident) == [i \in 1..Len(ident) |-> IF LowerByte(ident[i]) = 95 THEN 45 ELSE LowerByte(ident[i])]

\* Project.__init__ defaults, in units of 1/10000
Fa == 30000
Fs == 5000
Fn == 0

Digit(d) == 48 + d
\* the decimal digits of a natural number
RECURSIVE Decimal(_)
Decimal(n) == IF n < 10 THEN <<Digit(n)>> ELSE Decimal(n \div 10) \o <<Digit(n % 10)>>
\* '{:.4f}'.format(v / 10000) for v >= 0
Fmt4(v) == Decimal(v \div 10000) \o <<46, Digit((v \div 1000) % 10), Digit((v \div 100) % 10), Digit((v \div 10) % 10), Digit(v % 10)>>
\* '$fa={:.4f};\n$fs={:.4f};\n$fn={:.4f};\n'.format(fa, fs, fn)
ConfigLinesOf(c) == <<36, 102, 97, 61>> \o Fmt4(c.fa) \o <<59, 10>> \o <<36, 102, 115, 61>> \o Fmt4(c.fs) \o <<59, 10>> \o <<36, 102, 110, 61>> \o Fmt4(c.fn) \o <<59, 10>>
DefaultCfg == [fa |-> Fa, fs |-> Fs, fn |-> Fn]
ConfigLines == ConfigLinesOf(DefaultCfg)

\* model.to_string(): the serialized geometry of handle g (opaque, one text per handle)
To_string(g) == <<103, Digit(g), 59>>
DescriptionOf(c, g) == ConfigLinesOf(c) \o To_string(g)
Description(g) == DescriptionOf(DefaultCfg, g)

\* what openscad writes to the artifact for a description (opaque, a function of the description)
Openscad(d) == <<115>> \o d

\* bytes written by somebody else (a manual edit, a corruption)
EditBytes == <<120>>

(***************************************************************************)
(* Files.  A path is absent, or an existing readable file, or an existing  *)
(* path that cannot be opened (Blocked: os.path.exists is true, open       *)
(* raises, for instance a directory or a file without permissions).        *)
(***************************************************************************)
Absent == [exists |-> FALSE, readable |-> FALSE, bytes |-> <<>>]
Blocked == [exists |-> TRUE, readable |-> FALSE, bytes |-> <<>>]
FileOf(b) == [exists |-> TRUE, readable |-> TRUE, bytes |-> b]

ScadPath(name) == <<"scad", name, ".scad">>
StlPath(name) == <<"stl", name, ".stl">>

(***************************************************************************)
(* Python values kept in the cache mapping: str and uuid.UUID objects.     *)
(***************************************************************************)
Str(b) == [kind |-> "str", v |-> b]
Uuid(n) == [kind |-> "uuid", v |-> <<n>>]
EmptyStr == Str(<<>>)

EmptyMap == [k \in {} |-> EmptyStr]
Put(m, k, v) == [x \in (DOMAIN m) \cup {k} |-> IF x = k THEN v ELSE m[x]]
\* dict.get(k, '')
Get(m, k) == IF k \in DOMAIN m THEN m[k] ELSE EmptyStr

\* other JSON values found in a cache file
Num(n) == [kind |-> "num", v |-> <<n>>]

\* The cache file: absent, unparseable ("garbage"), a JSON document that is
\* not an object ("value"; shape tells which: "null", "list" for [], "string"
\* for "x"), or a JSON object ("object").  Of an object, other holds the
\* members under other keys than scad_cache, and shape tells what is under
\* scad_cache: "map" an object (sc holds its members), "none" nothing (the
\* key is missing), "bad" a value that is not an object.
NoCacheFile == [kind |-> "absent", sc |-> EmptyMap, shape |-> "none", other |-> EmptyMap]
GarbageFile == [kind |-> "garbage", sc |-> EmptyMap, shape |-> "none", other |-> EmptyMap]
ObjectFileWith(sc, shape, other) == [kind |-> "object", sc |-> sc, shape |-> shape, other |-> other]
ValueFile(shape) == [kind |-> "value", sc |-> EmptyMap, shape |-> shape, other |-> EmptyMap]
\* the JSON object {"scad_cache": sc}
ObjectFile(sc) == ObjectFileWith(sc, "map", EmptyMap)

(***************************************************************************)
(* The part registry: self.parts, a dict in insertion order.               *)
(***************************************************************************)
PartNames(ps) == {ps[i].name : i \in 1..Len(ps)}
NameSeq(ps) == [i \in 1..Len(ps) |-> ps[i].name]
\* self.parts[name] = model
SetPart(ps, name, model) ==
    IF name \in PartNames(ps)
    THEN [i \in 1..Len(ps) |-> IF ps[i].name = name THEN [name |-> name, model |-> model] ELSE ps[i]]
    ELSE Append(ps, [name |-> name, model |-> model])

\* a registration that enters the name before it calls the callable
AddPartCallable_RegisterFirst(ps, ident, outcome, g) ==
    IF outcome = "raise"
    THEN [parts |-> SetPart(ps, DeriveName(ident), 0), raised |-> FALSE]
    ELSE [parts |-> SetPart(ps, DeriveName(ident), g), raised |-> FALSE]

\* add_part with a callable: outcome is "raise" or "ok" (then g is the geometry returned)
AddPartCallable(ps, ident, outcome, g) ==
    IF outcome = "raise"
    THEN [parts |-> ps, raised |-> FALSE]
    ELSE [parts |-> SetPart(ps, DeriveName(ident), g), raised |-> FALSE]

(***************************************************************************)
(* _get_files_hash, _read_cache, _write_cache                              *)
(***************************************************************************)
Sep == <<0, 0, 0, 1, 0, 0>>

\* a digest of the description file alone
HashStream_DescriptionOnly(files) ==
    IF files = <<>> THEN <<>> ELSE Sep \o Head(files).bytes

RECURSIVE HashStream(_)
HashStream(files) ==
    IF files = <<>> THEN <<>> ELSE Sep \o Head(files).bytes \o HashStream(Tail(files))

\* a fallback that is the empty string instead of a fresh UUID
GetFilesHash_EmptyFallback(files, nonce) ==
    IF \A i \in 1..Len(files) : files[i].exists /\ files[i].readable
    THEN [raised |-> FALSE, failed |-> FALSE, value |-> Str(HashStream(files))]
    ELSE [raised |-> FALSE, failed |-> TRUE, value |-> EmptyStr]

\* nonce stands for the random value of uuid.uuid4(); failed records that the
\* except branch was taken
GetFilesHash(files, nonce) ==
    IF \A i \in 1..Len(files) : files[i].exists /\ files[i].readable
    THEN [raised |-> FALSE, failed |-> FALSE, value |-> Str(HashStream(files))]
    ELSE [raised |-> FALSE, failed |-> TRUE, value |-> Uuid(nonce)]

\* the Python value json.load makes of a parseable cache file: a dict of an
\* object (hasSc: it has the key scad_cache, scOk: the value under it is a
\* dict, sc: that dict, other: the other items), a list, a str or None
EmptyDict == [type |-> "dict", hasSc |-> FALSE, scOk |-> FALSE, sc |-> EmptyMap, other |-> EmptyMap]
JsonLoad(cf) ==
    IF cf.kind = "object"
    THEN [type |-> "dict", hasSc |-> cf.shape # "none", scOk |-> cf.shape = "map",
          sc |-> IF cf.shape = "map" THEN cf.sc ELSE EmptyMap, other |-> cf.other]
    ELSE [EmptyDict EXCEPT !.type = IF cf.shape = "null" THEN "NoneType"
                                    ELSE IF cf.shape = "list" THEN "list" ELSE "str"]

\* a reader without the try/except around json.load
ReadCache_Raising(cf) ==
    IF cf.kind = "absent" THEN [raised |-> FALSE, result |-> EmptyDict]
    ELSE IF cf.kind = "garbage" THEN [raised |-> TRUE, result |-> EmptyDict]
    ELSE [raised |-> FALSE, result |-> JsonLoad(cf)]

\* os.path.exists, json.load and the bare except of _read_cache
ReadCache(cf) ==
    IF cf.kind = "absent" THEN [raised |-> FALSE, result |-> EmptyDict]
    ELSE IF cf.kind = "garbage" THEN [raised |-> FALSE, result |-> EmptyDict]
    ELSE [raised |-> FALSE, result |-> JsonLoad(cf)]

\* lines 46-47 of build_stl on the value _read_cache returned: the test
\* `'scad_cache' not in cache` raises TypeError on None, and is true on []
\* and on "x", where the assignment cache['scad_cache'] = {} raises TypeError
EnsureScadCache(c) ==
    IF c.type # "dict" THEN [raised |-> TRUE, cache |-> c]
    ELSE IF c.hasSc THEN [raised |-> FALSE, cache |-> c]
    ELSE [raised |-> FALSE, cache |-> [c EXCEPT !.hasSc = TRUE, !.scOk = TRUE, !.sc = EmptyMap]]

\* a writer that reports success and leaves the file alone
WriteCache_NotPersisting(cf, cache, openOk) ==
    [file |-> cf, written |-> "ok", raised |-> FALSE]

\* a writer that writes the scad_cache mapping alone
WriteCache_ScadCacheOnly(cf, cache, openOk) ==
    IF ~openOk THEN [file |-> cf, written |-> "openfail", raised |-> FALSE]
    ELSE IF \E k \in DOMAIN cache.sc : cache.sc[k].kind = "uuid"
         THEN [file |-> GarbageFile, written |-> "partial", raised |-> FALSE]
         ELSE [file |-> ObjectFile(cache.sc), written |-> "ok", raised |-> FALSE]

\* json.dump streams the whole dict to the opened (already truncated) file
\* and raises TypeError at the first value that is not serializable (a UUID)
WriteCache(cf, cache, openOk) ==
    IF ~openOk THEN [file |-> cf, written |-> "openfail", raised |-> FALSE]
    ELSE IF \E k \in DOMAIN cache.sc : cache.sc[k].kind = "uuid"
         THEN [file |-> GarbageFile, written |-> "partial", raised |-> FALSE]
         ELSE [file |-> ObjectFileWith(cache.sc, "map", cache.other), written |-> "ok", raised |-> FALSE]

(***************************************************************************)
(* build_scad and build_stl                                                *)
(***************************************************************************)
\* an emitter that opens the files for appending
RECURSIVE BuildScadOf_Appending(_, _, _)
BuildScadOf_Appending(c, ps, files) ==
    IF ps = <<>> THEN files
    ELSE BuildScadOf_Appending(c, Tail(ps),
            [files EXCEPT ![Head(ps).name] = FileOf(@.bytes \o DescriptionOf(c, Head(ps).model))])

\* build_scad of a project with the resolution parameters c
RECURSIVE BuildScadOf(_, _, _)
BuildScadOf(c, ps, files) ==
    IF ps = <<>> THEN files
    ELSE BuildScadOf(c, Tail(ps), [files EXCEPT ![Head(ps).name] = FileOf(DescriptionOf(c, Head(ps).model))])

BuildScad(ps, files) == BuildScadOf(DefaultCfg, ps, files)

Outcomes == {"ok", "fail", "spawn"}
Range(s) == {s[i] : i \in 1..Len(s)}

StartAcc(stlFiles, sc) ==
    [stl |-> stlFiles, sc |-> sc, scOk |-> TRUE, invoked |-> <<>>, skipped |-> <<>>, visited |-> <<>>,
     compared |-> {}, preFail |-> {}, postFail |-> {}, failed |-> {}, raisedBy |-> "none"]

\* How the compiler invocation for a part ends: out is what the compiler does
\* by itself ("ok": it runs and writes the artifact, "fail": it exits nonzero
\* without writing, "spawn": the process cannot be launched, OSError); a
\* compiler that runs cannot write to a blocked path and exits nonzero.
Outcome(out, stlF) == IF out = "ok" /\ stlF = Blocked THEN "fail" ELSE out

\* keys taken from the artifact path
CacheKey_StlPath(name) == StlPath(name)
StoreKey_StlPath(name) == StlPath(name)

\* the key build_stl looks a part's cache entry up with (line 59) and the key
\* it stores it under (line 69)
CacheKey(name) == ScadPath(name)
StoreKey(name) == ScadPath(name)

\* the condition of the `continue` at line 57-60
UpToDate(acc, name, scadF, force, nonce) ==
    /\ acc.stl[name].exists
    /\ ~force
    /\ Get(acc.sc, CacheKey(name)) = GetFilesHash(<<scadF, acc.stl[name]>>, nonce).value

RECURSIVE LoopParts(_, _, _, _, _, _)
LoopParts(i, ps, scadFiles, force, out, acc) ==
    IF i > Len(ps) \/ acc.raisedBy # "none" THEN acc
    ELSE LET name == ps[i].name
             scadF == scadFiles[name]
             stlF == acc.stl[name]
             pre == GetFilesHash(<<scadF, stlF>>, 2 * i)
             hashed == stlF.exists /\ ~force
             acc1 == [acc EXCEPT !.visited = Append(@, name),
                                 !.compared = IF hashed THEN @ \cup {name} ELSE @,
                                 !.preFail = IF hashed /\ pre.failed THEN @ \cup {name} ELSE @]
         IN IF hashed /\ pre.raised
            THEN [acc1 EXCEPT !.raisedBy = "hash"]
            ELSE IF hashed /\ ~acc.scOk
            THEN [acc1 EXCEPT !.raisedBy = "cache"]
            ELSE IF UpToDate(acc, name, scadF, force, 2 * i)
            THEN LoopParts(i + 1, ps, scadFiles, force, out, [acc1 EXCEPT !.skipped = Append(@, name)])
            ELSE IF Outcome(out[name], stlF) = "spawn"
            THEN [acc1 EXCEPT !.invoked = Append(@, name), !.raisedBy = "spawn"]
            ELSE LET stl2 == IF Outcome(out[name], stlF) = "ok"
                             THEN [acc.stl EXCEPT ![name] = FileOf(Openscad(scadF.bytes))]
                             ELSE acc.stl
                     post == GetFilesHash(<<scadF, stl2[name]>>, 2 * i + 1)
                     acc2 == [acc1 EXCEPT !.invoked = Append(@, name), !.stl = stl2,
                                          !.failed = IF Outcome(out[name], stlF) = "fail" THEN @ \cup {name} ELSE @]
                 IN IF post.raised
                    THEN [acc2 EXCEPT !.raisedBy = "hash"]
                    ELSE IF ~acc.scOk
                    THEN [acc2 EXCEPT !.raisedBy = "cache"]
                    ELSE LoopParts(i + 1, ps, scadFiles, force, out,
                                   [acc2 EXCEPT !.sc = Put(@, StoreKey(name), post.value),
                                                !.postFail = IF post.failed THEN @ \cup {name} ELSE @])

\* the whole of build_stl on a file-system state.  A scad_cache value that
\* is not a dict raises at the first use: AttributeError at .get (line 59),
\* TypeError at the item assignment (line 69).
RunBuildStl(ps, scadFiles, stlFiles, cf, force, out, openOk) ==
    LET scad1 == BuildScad(ps, scadFiles)
        rd == ReadCache(cf)
        en == EnsureScadCache(rd.result)
        acc == IF rd.raised
               THEN [StartAcc(stlFiles, EmptyMap) EXCEPT !.raisedBy = "read"]
               ELSE IF en.raised
               THEN [StartAcc(stlFiles, EmptyMap) EXCEPT !.raisedBy = "cache"]
               ELSE LoopParts(1, ps, scad1, force, out,
                              [StartAcc(stlFiles, en.cache.sc) EXCEPT !.scOk = en.cache.scOk])
        wr == IF acc.raisedBy # "none"
              THEN [file |-> cf, written |-> "none", raised |-> FALSE]
              ELSE WriteCache(cf, [en.cache EXCEPT !.sc = acc.sc], openOk)
    IN [scad |-> scad1, stl |-> acc.stl, cacheFile |-> wr.file, readType |-> rd.result.type,
        invoked |-> acc.invoked, skipped |-> acc.skipped, visited |-> acc.visited,
        compared |-> acc.compared, preFail |-> acc.preFail, postFail |-> acc.postFail, failed |-> acc.failed,
        raisedBy |-> IF acc.raisedBy # "none" THEN acc.raisedBy ELSE IF wr.raised THEN "write" ELSE "none",
        written |-> wr.written]

(***************************************************************************)
(* run: the guard is an attribute of the class Project, shared by every    *)
(* instance; cls is the class attribute, inst the instances that carry an  *)
(* attribute of their own that shadows it.                                 *)
(***************************************************************************)
Projects == 1..NumProjects
NoGuard == [cls |-> FALSE, inst |-> {}]

\* `if Project._single_run_guard:` reads the class attribute
GuardRead(g, i) == g.cls

\* a guard set on the instance: self._single_run_guard = True
GuardWrite_OnInstance(g, i) == [g EXCEPT !.inst = @ \cup {i}]

\* `Project._single_run_guard = True` writes the class attribute
GuardWrite(g, i) == [g EXCEPT !.cls = TRUE]

\* the sub-commands of the parser and the default (no sub-command); any other
\* command line makes parse_args exit
Commands == {"none", "watch", "build-scad", "build-stl"}
ArgvSet == Commands \cup {"bogus"}
\* set_defaults(func=...) of the parser and of each sub-parser
FuncOf(cmd) ==
    IF cmd = "watch" THEN "watch"
    ELSE IF cmd = "build-scad" THEN "build_scad"
    ELSE IF cmd = "build-stl" THEN "build_stl"
    ELSE "print_help"

(***************************************************************************)
(* State.                                                                  *)
(*   parts      self.parts of the project                                  *)
(*   scad, stl  the description and artifact files, by part name           *)
(*   cacheFile  the cache file                                             *)
(*   lastRun    what the build_stl call that just returned did; NoRun when *)
(*              the last operation was not build_stl (history variable)    *)
(*   prev       summary of the last build_stl call (history variable)      *)
(*   ret        how the last operation ended (history variable)            *)
(*   scad0, stl0, cache0  the files as the last build_stl call left them   *)
(*   runs, edits, adds  numbers of operations so far, bound the exploration *)
(*   faults     number of failed compiler invocations and failed opens of   *)
(*              the cache file so far, bounds the exploration               *)
(*   ex         progress through the bolt-and-nut example of the spec      *)
(***************************************************************************)
NoPrev == [ran |-> FALSE, good |-> FALSE, written |-> FALSE, postFail |-> {}, failed |-> {}, parts |-> <<>>]

NoRun ==
    [ran |-> FALSE, force |-> FALSE, out |-> [n \in Names |-> "ok"], openOk |-> TRUE,
     cacheIn |-> "absent", readType |-> "dict", invoked |-> <<>>, skipped |-> <<>>, visited |-> <<>>,
     compared |-> {}, preFail |-> {}, postFail |-> {}, failed |-> {}, raisedBy |-> "none", written |-> "none",
     quiet |-> FALSE, sameParts |-> FALSE, prev |-> NoPrev,
     stlChanged |-> {}, scadChanged |-> {}, geomChanged |-> {}]

\* Operations on the registry and edits of files commute, and a second edit of
\* a file overwrites the first: between two builds only the orders "calls of
\* add_part, then edits by ascending Rank, each file at most once" are explored.
Rank(op) == IF op = "stl" THEN 1 ELSE IF op = "scad" THEN 2 ELSE IF op = "cache" THEN 3 ELSE 0

Ret(op, callRaised, raised) == [op |-> op, callRaised |-> callRaised, raised |-> raised, rank |-> Rank(op)]

BuildInit ==
    /\ parts = <<>>
    /\ scad = [n \in Names |-> Absent]
    /\ stl = [n \in Names |-> Absent]
    /\ cacheFile = NoCacheFile
    /\ lastRun = NoRun
    /\ prev = NoPrev
    /\ ret = Ret("init", FALSE, FALSE)
    /\ scad0 = [n \in Names |-> Absent]
    /\ stl0 = [n \in Names |-> Absent]
    /\ cache0 = NoCacheFile
    /\ runs = 0
    /\ edits = 0
    /\ adds = 0
    /\ faults = 0
    /\ ex = 0

\* no call of run has been made
RunIdle ==
    /\ single_run_guard = NoGuard
    /\ stack = <<>>
    /\ argv = "build-stl"
    /\ dispatched = <<>>
    /\ rlog = <<>>

\* watch has not been called
NoCallback == [active |-> FALSE, by |-> "none", pc |-> "none", launches |-> <<>>, slept |-> FALSE]
NoWatcher == [created |-> FALSE, watching |-> FALSE, starts |-> 0, stops |-> 0, rebuildsAtStart |-> 0]
WatchIdle ==
    /\ wpc = 0
    /\ cb = NoCallback
    /\ child = "none"
    /\ mw = NoWatcher
    /\ wargs = [debug |-> FALSE, scad_directory |-> "scad"]
    /\ wexit = "none"
    /\ wlog = <<>>

\* a project with the default parameters, build_scad not called by itself
NoEmit ==
    [n |-> 0, parts |-> <<>>, after |-> [n \in Names |-> Absent],
     parts0 |-> <<>>, after0 |-> [n \in Names |-> Absent], before |-> [n \in Names |-> Absent]]
EmitIdle ==
    /\ cfg = DefaultCfg
    /\ emit = NoEmit

\* no pair of files handed to _get_files_hash by itself
HashIdle ==
    /\ hin = <<>>
    /\ hout = <<>>

Init == BuildInit /\ RunIdle /\ WatchIdle /\ EmitIdle /\ HashIdle

Files == <<scad, stl, cacheFile>>
Snapshot == <<prev, scad0, stl0, cache0>>

\* every operation counts against the total
Step == runs + edits + adds < MaxSteps
\* registrations and edits are explored only while a build can still follow
Room == runs < MaxRuns /\ runs + edits + adds + 1 < MaxSteps

AddFrame ==
    /\ Room
    /\ adds < MaxAdds
    /\ ret.rank = 0
    /\ adds' = adds + 1
    /\ lastRun' = NoRun
    /\ UNCHANGED <<Files, Snapshot, ex, runs, edits, faults, driverVars>>

\* add_part(name, model)
AddPartNamed(name, g) ==
    /\ AddFrame
    /\ parts' = SetPart(parts, name, g)
    /\ ret' = Ret("add_part", FALSE, FALSE)

\* add_part(callable), the callable returns geometry g
AddPartCallableOk(ident, g) ==
    LET r == AddPartCallable(parts, ident, "ok", g)
    IN /\ AddFrame
       /\ parts' = r.parts
       /\ ret' = Ret("add_part", FALSE, r.raised)

\* add_part(callable), the callable raises
AddPartCallableRaises(ident) ==
    LET r == AddPartCallable(parts, ident, "raise", 1)
    IN /\ ret.rank = 0
       /\ parts' = r.parts
       /\ ret' = Ret("add_part", TRUE, r.raised)
       /\ lastRun' = NoRun
       /\ UNCHANGED <<Files, Snapshot, ex, runs, edits, adds, faults, driverVars>>

\* build_stl(args) with args.force = force; out[n] is how the compiler
\* invocation for part n ends, openOk whether the cache file can be opened
\* for writing
BuildStl(force, out, openOk) ==
    \E r \in {RunBuildStl(parts, scad, stl, cacheFile, force, out, openOk)} :
    LET failed == r.failed
        allOk == openOk /\ \A n \in Names : out[n] = "ok"
        cold == cacheFile.kind = "absent" /\ \A n \in Names : ~stl[n].exists
        nfaults == Cardinality({n \in Names : out[n] # "ok"}) + (IF openOk THEN 0 ELSE 1)
    IN /\ Step
       /\ runs < MaxRuns
       /\ runs' = runs + 1
       /\ faults + nfaults <= MaxFaults
       /\ faults' = faults + nfaults
       /\ \A n \in Names : n \notin Range(r.invoked) => out[n] = "ok"
       /\ \A n \in Range(r.invoked) : (stl[n] = Blocked) => out[n] # "fail"
       /\ r.raisedBy # "none" => openOk
       /\ scad' = r.scad
       /\ stl' = r.stl
       /\ cacheFile' = r.cacheFile
       /\ scad0' = r.scad
       /\ stl0' = r.stl
       /\ cache0' = r.cacheFile
       /\ lastRun' =
            [ran |-> TRUE, force |-> force, out |-> out, openOk |-> openOk,
             cacheIn |-> cacheFile.kind, readType |-> r.readType, invoked |-> r.invoked, skipped |-> r.skipped, visited |-> r.visited,
             compared |-> r.compared, preFail |-> r.preFail, postFail |-> r.postFail, failed |-> r.failed,
             raisedBy |-> r.raisedBy, written |-> r.written,
             quiet |-> prev.ran /\ scad = scad0 /\ stl = stl0 /\ cacheFile = cache0,
             sameParts |-> prev.ran /\ parts = prev.parts,
             prev |-> prev,
             stlChanged |-> {n \in Names : stl[n] # stl0[n]},
             scadChanged |-> {n \in Names : scad[n] # scad0[n]},
             geomChanged |-> {n \in PartNames(parts) : r.scad[n] # scad0[n]}]
       /\ prev' = [ran |-> TRUE,
                   good |-> r.raisedBy = "none" /\ failed = {} /\ r.written = "ok",
                   written |-> r.written = "ok",
                   postFail |-> r.postFail, failed |-> failed, parts |-> parts]
       /\ ret' = Ret("build_stl", FALSE, r.raisedBy # "none")
       /\ ex' = IF ~force /\ allOk /\ NameSeq(parts) = <<Bolt, Nut>>
                THEN IF ex = 1 /\ parts = prev.parts THEN 2
                     ELSE IF ex = 3 /\ parts = prev.parts THEN 4
                     ELSE IF cold THEN 1
                     ELSE 0
                ELSE 0
       /\ UNCHANGED <<parts, edits, adds, driverVars>>

(***************************************************************************)
(* The environment: other programs and the user change files between two   *)
(* builds.                                                                 *)
(***************************************************************************)
\* the part whose files are changed out of band (build_stl treats all names alike)
TamperNames == {Nut}

\* what an artifact is overwritten with out of band: an edit, or the output of
\* a compiler run made by hand on the description file as it is
ArtifactBytes(n) == {EditBytes} \cup (IF scad[n].exists /\ scad[n].readable THEN {Openscad(scad[n].bytes)} ELSE {})

EnvFrame(file) ==
    /\ Room
    /\ edits < MaxEdits
    /\ ret.rank < Rank(file)
    /\ edits' = edits + 1
    /\ ret' = Ret(file, FALSE, FALSE)
    /\ lastRun' = NoRun
    /\ UNCHANGED <<parts, Snapshot, runs, adds, faults, driverVars>>

DeleteStl(n) ==
    /\ stl[n].exists
    /\ stl' = [stl EXCEPT ![n] = Absent]
    /\ ex' = IF ex = 2 /\ n = Nut THEN 3 ELSE 0
    /\ EnvFrame("stl")
    /\ UNCHANGED <<scad, cacheFile>>

BlockStl(n) ==
    /\ stl[n] # Blocked
    /\ stl' = [stl EXCEPT ![n] = Blocked]
    /\ ex' = 0
    /\ EnvFrame("stl")
    /\ UNCHANGED <<scad, cacheFile>>

WriteStl(n, b) ==
    /\ stl[n] # FileOf(b)
    /\ stl' = [stl EXCEPT ![n] = FileOf(b)]
    /\ ex' = 0
    /\ EnvFrame("stl")
    /\ UNCHANGED <<scad, cacheFile>>

EditScad(n) ==
    /\ scad[n].exists
    /\ scad[n] # FileOf(EditBytes)
    /\ scad' = [scad EXCEPT ![n] = FileOf(EditBytes)]
    /\ ex' = 0
    /\ EnvFrame("scad")
    /\ UNCHANGED <<stl, cacheFile>>

DeleteCache ==
    /\ cacheFile.kind # "absent"
    /\ cacheFile' = NoCacheFile
    /\ ex' = 0
    /\ EnvFrame("cache")
    /\ UNCHANGED <<scad, stl>>

CorruptCache ==
    /\ cacheFile.kind # "garbage"
    /\ cacheFile' = GarbageFile
    /\ ex' = 0
    /\ EnvFrame("cache")
    /\ UNCHANGED <<scad, stl>>

Next ==
    \/ \E name \in Names, g \in Geoms : AddPartNamed(name, g)
    \/ \E ident \in Idents, g \in Geoms : AddPartCallableOk(ident, g)
    \/ \E ident \in Idents : AddPartCallableRaises(ident)
    \/ \E force \in BOOLEAN, out \in [Names -> Outcomes], openOk \in BOOLEAN : BuildStl(force, out, openOk)
    \/ \E n \in TamperNames : DeleteStl(n)
    \/ \E n \in TamperNames : BlockStl(n)
    \/ \E n \in TamperNames : \E b \in ArtifactBytes(n) : WriteStl(n, b)
    \/ \E n \in TamperNames : EditScad(n)
    \/ DeleteCache
    \/ CorruptCache

Spec == Init /\ [][Next]_vars

(***************************************************************************)
(* The driver.  A frame of the stack is a call of run on an instance and   *)
(* where it is: at the guard (line 155), parsing (lines 159-182) or in the *)
(* dispatched operation (line 183).  run is called from the top level or,  *)
(* re-entrantly, from whatever the dispatched operation executes.          *)
(*   rlog        per call that reached the guard: what it did (history)    *)
(*   dispatched  the calls of args.func made so far (history)              *)
(***************************************************************************)
Top == stack[Len(stack)]
Pop == SubSeq(stack, 1, Len(stack) - 1)
SetTop(pc) == [stack EXCEPT ![Len(stack)].pc = pc]

RunStart ==
    /\ single_run_guard = NoGuard
    /\ stack = <<>>
    /\ argv \in ArgvSet
    /\ dispatched = <<>>
    /\ rlog = <<>>

\* p.run() is called
RunCall(i) ==
    /\ Len(rlog) + Len(stack) < MaxCalls
    /\ IF stack = <<>> THEN TRUE ELSE Top.pc = "func"
    /\ stack' = Append(stack, [inst |-> i, pc |-> "guard"])
    /\ UNCHANGED <<single_run_guard, argv, dispatched, rlog, buildVars, watchVars, emitVars, hashVars>>

\* lines 155-157
RunGuard ==
    /\ stack # <<>>
    /\ Top.pc = "guard"
    /\ IF GuardRead(single_run_guard, Top.inst)
       THEN /\ stack' = Pop
            /\ rlog' = Append(rlog, [inst |-> Top.inst, did |-> "noop", depth |-> Len(stack)])
            /\ UNCHANGED single_run_guard
       ELSE /\ single_run_guard' = GuardWrite(single_run_guard, Top.inst)
            /\ stack' = SetTop("parse")
            /\ rlog' = Append(rlog, [inst |-> Top.inst, did |-> "body", depth |-> Len(stack)])
    /\ UNCHANGED <<argv, dispatched, buildVars, watchVars, emitVars, hashVars>>

\* lines 159-183 up to the call of args.func: parse_args leaves the process
\* (SystemExit) on a command line it does not accept
RunParse ==
    /\ stack # <<>>
    /\ Top.pc = "parse"
    /\ IF argv \in Commands
       THEN /\ dispatched' = Append(dispatched, [inst |-> Top.inst, func |-> FuncOf(argv)])
            /\ stack' = SetTop("func")
       ELSE /\ stack' = <<>>
            /\ UNCHANGED dispatched
    /\ UNCHANGED <<single_run_guard, argv, rlog, buildVars, watchVars, emitVars, hashVars>>

\* args.func(args) comes back (returns or raises) and run ends
RunReturn ==
    /\ stack # <<>>
    /\ Top.pc = "func"
    /\ stack' = Pop
    /\ UNCHANGED <<single_run_guard, argv, dispatched, rlog, buildVars, watchVars, emitVars, hashVars>>

NextRun ==
    \/ \E i \in Projects : RunCall(i)
    \/ RunGuard
    \/ RunParse
    \/ RunReturn

InitRun == BuildInit /\ RunStart /\ WatchIdle /\ EmitIdle /\ HashIdle

SpecRun == InitRun /\ [][NextRun]_vars

TypeOK ==
    /\ PartNames(parts) \subseteq Names
    /\ runs \in 0..MaxRuns

(***************************************************************************)
(* The rebuild watcher.  watch builds the callback and the ModuleWatcher   *)
(* (lines 103-104) and then executes the statements of its try body one    *)
(* after the other; whatever leaves the try body goes through the finally  *)
(* clause.  wpc is 0 before the call, the index of the statement the call  *)
(* is at, and Len(TryBody) + 1 once watch has been left.                   *)
(*   cb     the running call of real_scad_generator: who called it, where  *)
(*          it is ("first": the call in the try, "sleep": the sleep of the *)
(*          except clause, "second": the call in the except clause), the   *)
(*          launches it made and how each ended                            *)
(*   child  "running" while a launched subprocess has not ended            *)
(*   mw     the ModuleWatcher, with numbers of start_watching and          *)
(*          stop_watching calls (history)                                  *)
(*   wlog   the ended rebuild attempts (history)                           *)
(***************************************************************************)
\* the try body in an order that opens the session before the first rebuild
TryBody_StartFirst == <<"start_watching", "callback", "loop">>

\* lines 106-109
TryBody == <<"callback", "start_watching", "loop">>

Stmt == IF wpc \in 1..Len(TryBody) THEN TryBody[wpc] ELSE IF wpc = 0 THEN "off" ELSE "left"

\* lines 89-95
CommandArgs(args) ==
    <<"__main__.__file__", "--scad-directory", args.scad_directory>>
        \o (IF args.debug THEN <<"--debug">> ELSE <<>>) \o <<"build-scad">>

\* a generator that also retries when the subprocess exits nonzero
AfterCall_RetryOnExitCode(pc, how) ==
    IF how = "spawn" \/ how = "exit1"
    THEN IF pc = "first" THEN "sleep" ELSE IF how = "spawn" THEN "raise" ELSE "return"
    ELSE "return"

\* lines 96-100: where real_scad_generator goes when the subprocess.call at pc
\* ended with how ("spawn": it raised OSError, "exit0", "exit1": the child was
\* launched, waited for and ended with that code)
AfterCall(pc, how) ==
    IF how = "spawn"
    THEN IF pc = "first" THEN "sleep" ELSE "raise"
    ELSE "return"

\* the finally clause, line 111
Finally(exc) ==
    /\ mw' = [mw EXCEPT !.stops = @ + 1, !.watching = FALSE]
    /\ wpc' = Len(TryBody) + 1
    /\ wexit' = exc

\* the call of real_scad_generator ends: it returns, or raises OSError.  At
\* line 106 the exception leaves the try body; raised in a change callback it
\* goes to the ModuleWatcher, which goes on watching.
EndAttempt(launches, how) ==
    /\ cb' = NoCallback
    /\ IF cb.by = "startup"
       THEN IF how = "returned"
            THEN wpc' = wpc + 1 /\ UNCHANGED <<mw, wexit>>
            ELSE Finally("OSError")
       ELSE UNCHANGED <<wpc, mw, wexit>>
    /\ wlog' = Append(wlog, [by |-> cb.by, launches |-> launches, ended |-> how,
                              alive |-> wpc' \in 1..Len(TryBody),
                              cmd |-> CommandArgs(wargs)])

WatchStart ==
    /\ wpc = 0
    /\ cb = NoCallback
    /\ child = "none"
    /\ mw = NoWatcher
    /\ wargs \in [debug : BOOLEAN, scad_directory : {"scad"}]
    /\ wexit = "none"
    /\ wlog = <<>>

\* watch(args) is called: lines 84-105
WatchCall ==
    /\ wpc = 0
    /\ wpc' = 1
    /\ mw' = [mw EXCEPT !.created = TRUE]
    /\ UNCHANGED <<cb, child, wargs, wexit, wlog, buildVars, runVars, emitVars, hashVars>>

\* line 106: callback()
CallbackAtStartup ==
    /\ Stmt = "callback"
    /\ ~cb.active
    /\ cb' = [active |-> TRUE, by |-> "startup", pc |-> "first", launches |-> <<>>, slept |-> FALSE]
    /\ UNCHANGED <<wpc, child, mw, wargs, wexit, wlog, buildVars, runVars, emitVars, hashVars>>

\* line 107: mw.start_watching()
StartWatching ==
    /\ Stmt = "start_watching"
    /\ mw' = [mw EXCEPT !.starts = @ + 1, !.watching = TRUE, !.rebuildsAtStart = Len(wlog)]
    /\ wpc' = wpc + 1
    /\ UNCHANGED <<cb, child, wargs, wexit, wlog, buildVars, runVars, emitVars, hashVars>>

\* the ModuleWatcher sees a change of the sources and calls the callback
ChangeDetected ==
    /\ Stmt = "loop"
    /\ mw.watching
    /\ ~cb.active
    /\ Len(wlog) < MaxAttempts
    /\ cb' = [active |-> TRUE, by |-> "change", pc |-> "first", launches |-> <<>>, slept |-> FALSE]
    /\ UNCHANGED <<wpc, child, mw, wargs, wexit, wlog, buildVars, runVars, emitVars, hashVars>>

\* subprocess.call(command_args) raises OSError: the child is not launched
SpawnFails ==
    /\ cb.active
    /\ cb.pc \in {"first", "second"}
    /\ child = "none"
    /\ LET ls == Append(cb.launches, [how |-> "spawn", afterSleep |-> cb.slept])
       IN IF AfterCall(cb.pc, "spawn") = "sleep"
          THEN /\ cb' = [cb EXCEPT !.pc = "sleep", !.launches = ls]
               /\ UNCHANGED <<wpc, mw, wexit, wlog>>
          ELSE EndAttempt(ls, "raised")
    /\ UNCHANGED <<child, wargs, buildVars, runVars, emitVars, hashVars>>

\* subprocess.call(command_args) launches the child and waits
SpawnOk ==
    /\ cb.active
    /\ cb.pc \in {"first", "second"}
    /\ child = "none"
    /\ child' = "running"
    /\ UNCHANGED <<wpc, cb, mw, wargs, wexit, wlog, buildVars, runVars, emitVars, hashVars>>

\* the child ends with an exit code and subprocess.call returns it
ChildExit(code) ==
    /\ child = "running"
    /\ child' = "none"
    /\ LET how == IF code = 0 THEN "exit0" ELSE "exit1"
           ls == Append(cb.launches, [how |-> how, afterSleep |-> cb.slept])
       IN IF AfterCall(cb.pc, how) = "sleep"
          THEN /\ cb' = [cb EXCEPT !.pc = "sleep", !.launches = ls]
               /\ UNCHANGED <<wpc, mw, wexit, wlog>>
          ELSE EndAttempt(ls, IF AfterCall(cb.pc, how) = "raise" THEN "raised" ELSE "returned")
    /\ UNCHANGED <<wargs, buildVars, runVars, emitVars, hashVars>>

\* line 99: time.sleep(0.1) is over
Sleep ==
    /\ cb.active
    /\ cb.pc = "sleep"
    /\ cb' = [cb EXCEPT !.pc = "second", !.slept = TRUE]
    /\ UNCHANGED <<wpc, child, mw, wargs, wexit, wlog, buildVars, runVars, emitVars, hashVars>>

\* the user interrupts the process (KeyboardInterrupt) anywhere in the try
\* body; a child in flight gets the signal as well and is reaped
Interrupt ==
    /\ wpc \in 1..Len(TryBody)
    /\ Finally("KeyboardInterrupt")
    /\ cb' = NoCallback
    /\ child' = "none"
    /\ wlog' = IF cb.active
               THEN Append(wlog, [by |-> cb.by, launches |-> cb.launches, ended |-> "interrupted",
                                  alive |-> wpc' \in 1..Len(TryBody), cmd |-> CommandArgs(wargs)])
               ELSE wlog
    /\ UNCHANGED <<wargs, buildVars, runVars, emitVars, hashVars>>

NextWatch ==
    \/ WatchCall
    \/ CallbackAtStartup
    \/ StartWatching
    \/ ChangeDetected
    \/ SpawnFails
    \/ SpawnOk
    \/ \E code \in {0, 1} : ChildExit(code)
    \/ Sleep
    \/ Interrupt

InitWatch == BuildInit /\ RunIdle /\ WatchStart /\ EmitIdle /\ HashIdle

SpecWatch == InitWatch /\ [][NextWatch]_vars

(***************************************************************************)
(* The description emitter called by itself (the build-scad command): a    *)
(* project constructed with resolution parameters from CfgSet, parts       *)
(* registered with add_part, calls of build_scad and edits of the files    *)
(* between them.                                                           *)
(*   emit   number of build_scad calls; the registry at the last call and  *)
(*          the files as it left them (parts, after), the same for the     *)
(*          call before it (parts0, after0), and the files as they were    *)
(*          when the last call started (before) (history)                  *)
(***************************************************************************)
CfgSet == [fa : {Fa, 120000}, fs : {Fs, 20000}, fn : {Fn, 1000000}]

EmitStart ==
    /\ cfg \in CfgSet
    /\ emit = NoEmit

\* build_scad(args)
BuildScadOp ==
    /\ Step
    /\ runs < MaxRuns
    /\ runs' = runs + 1
    /\ scad' = BuildScadOf(cfg, parts, scad)
    /\ emit' = [n |-> emit.n + 1, parts |-> parts, after |-> scad',
                parts0 |-> emit.parts, after0 |-> emit.after, before |-> scad]
    /\ ret' = Ret("build_scad", FALSE, FALSE)
    /\ lastRun' = NoRun
    /\ ex' = 0
    /\ UNCHANGED <<parts, stl, cacheFile, Snapshot, edits, adds, faults, cfg, runVars, watchVars, hashVars>>

NextScad ==
    \/ \E name \in Names, g \in Geoms : AddPartNamed(name, g)
    \/ \E ident \in Idents, g \in Geoms : AddPartCallableOk(ident, g)
    \/ BuildScadOp
    \/ \E n \in TamperNames : EditScad(n)

InitScad == BuildInit /\ RunIdle /\ WatchIdle /\ EmitStart /\ HashIdle

SpecScad == InitScad /\ [][NextScad]_vars

(***************************************************************************)
(* _get_files_hash by itself: two pairs (description, artifact) of         *)
(* readable files, with contents made of up to MaxChunks chunks, a chunk   *)
(* being the separator bytes or other bytes; the function is called on     *)
(* one pair after the other.                                               *)
(***************************************************************************)
Chunks == {Sep, EditBytes}
RECURSIVE ContentsUpTo(_)
ContentsUpTo(n) ==
    IF n = 0 THEN {<<>>}
    ELSE ContentsUpTo(n - 1) \cup {c \o k : c \in ContentsUpTo(n - 1), k \in Chunks}
Contents == ContentsUpTo(MaxChunks)

HashStart ==
    /\ hin \in [1..2 -> [d : Contents, a : Contents]]
    /\ hout = <<>>

\* _get_files_hash(scad_file_path, stl_file_path) on the next pair
HashPair ==
    /\ Len(hout) < Len(hin)
    /\ LET p == hin[Len(hout) + 1]
       IN hout' = Append(hout, GetFilesHash(<<FileOf(p.d), FileOf(p.a)>>, Len(hout)).value)
    /\ UNCHANGED <<hin, buildVars, runVars, watchVars, emitVars>>

NextHash == HashPair

InitHash == BuildInit /\ RunIdle /\ WatchIdle /\ EmitIdle /\ HashStart

SpecHash == InitHash /\ [][NextHash]_vars

(***************************************************************************)
(* build_stl on the cache files it can find: a project whose parts are     *)
(* registered, artifacts of an earlier build present or not, and a cache   *)
(* file left by an earlier version, by another program or by an edit.      *)
(***************************************************************************)
\* a part of an earlier version of the project, no longer registered
Gone == <<103, 111, 110, 101>>
\* the fingerprint an earlier successful build stored for geometry 1
GoodFingerprint == Str(HashStream(<<FileOf(Description(1)), FileOf(Openscad(Description(1)))>>))
Registries ==
    {<<>>, SetPart(<<>>, Nut, 1), SetPart(SetPart(<<>>, Bolt, 1), Nut, 1)}
ScMaps ==
    UNION {[{ScadPath(n) : n \in K} -> {GoodFingerprint, Str(EditBytes)}] : K \in SUBSET {Nut, Bolt, Gone}}
Others == {EmptyMap, [k \in {"version"} |-> Num(1)]}
CacheFiles ==
    {NoCacheFile, GarbageFile}
        \cup {ValueFile(v) : v \in {"null", "list", "string"}}
        \cup {ObjectFileWith(sc, "map", o) : sc \in ScMaps, o \in Others}
        \cup {ObjectFileWith(EmptyMap, sh, o) : sh \in {"none", "bad"}, o \in Others}

CacheStart ==
    /\ parts \in Registries
    /\ scad = [n \in Names |-> Absent]
    /\ stl \in {[n \in Names |-> Absent], [n \in Names |-> FileOf(Openscad(Description(1)))]}
    /\ cacheFile \in CacheFiles
    /\ lastRun = NoRun
    /\ prev = NoPrev
    /\ ret = Ret("init", FALSE, FALSE)
    /\ scad0 = scad
    /\ stl0 = stl
    /\ cache0 = cacheFile
    /\ runs = 0
    /\ edits = 0
    /\ adds = 0
    /\ faults = 0
    /\ ex = 0

NextCache ==
    \E force \in BOOLEAN, out \in [Names -> Outcomes], openOk \in BOOLEAN : BuildStl(force, out, openOk)

InitCache == CacheStart /\ RunIdle /\ WatchIdle /\ EmitIdle /\ HashIdle

SpecCache == InitCache /\ [][NextCache]_vars

(***************************************************************************)
(* Properties.                                                             *)
(***************************************************************************)
FingerprintNow(n) == GetFilesHash(<<scad[n], stl[n]>>, 0).value
\* the last build before this one persisted the cache and part n went through
\* it without a failed compile
BuiltBefore(n) ==
    /\ lastRun.prev.ran
    /\ lastRun.prev.written
    /\ n \in PartNames(lastRun.prev.parts)
    /\ n \notin lastRun.prev.failed

\* C1: when the previous build_stl run returned with every compile it made
\* successful and the cache persisted, and no part and no file changed since,
\* a run with force=false invokes the compiler zero times.
C1_WarmRunCompilesNothing ==
    (lastRun.ran /\ ~lastRun.force /\ lastRun.prev.good /\ lastRun.quiet /\ lastRun.sameParts)
        => lastRun.invoked = <<>>

C1_Witness ==
    /\ lastRun.ran /\ ~lastRun.force /\ lastRun.prev.good /\ lastRun.quiet /\ lastRun.sameParts
    /\ ex = 2
    /\ lastRun.skipped = <<Bolt, Nut>>
    /\ lastRun.invoked = <<>>

\* C2: a build_stl run with force=true invokes the compiler exactly once for
\* every registered part, in registry order.
C2_ForcedRunCompilesEveryPart ==
    (lastRun.ran /\ lastRun.force) => lastRun.invoked = NameSeq(parts)

\* C3 as stated: after a build that persisted the cache, a part whose artifact
\* bytes or description bytes changed (out of band or by a changed geometry)
\* is not skipped as up to date by the next run with force=false.
C3_AnyChangeRecompiles ==
    (lastRun.ran /\ ~lastRun.force)
        => \A n \in lastRun.stlChanged \cup lastRun.scadChanged \cup lastRun.geomChanged :
              BuiltBefore(n) => n \notin Range(lastRun.skipped)

\* C3 amended: after a build that persisted the cache, a part whose artifact
\* bytes were changed out of band, or whose description changed because its
\* geometry changed, is not skipped as up to date by the next run with
\* force=false.
C3_ArtifactOrGeometryChangeRecompiles ==
    (lastRun.ran /\ ~lastRun.force)
        => \A n \in lastRun.stlChanged \cup lastRun.geomChanged :
              BuiltBefore(n) => n \notin Range(lastRun.skipped)

C3_Witness ==
    /\ lastRun.ran /\ ~lastRun.force
    /\ \E n \in lastRun.stlChanged :
          /\ BuiltBefore(n)
          /\ n \in lastRun.compared \ lastRun.preFail
          /\ n \in Range(lastRun.invoked)
    /\ \E n \in lastRun.geomChanged \ lastRun.stlChanged :
          /\ BuiltBefore(n)
          /\ n \in lastRun.compared \ lastRun.preFail
          /\ n \in Range(lastRun.invoked)

\* C4: in the bolt-and-nut example with all compiles successful, three runs
\* with force=false (first without artifacts and cache, then with nothing
\* changed, then after nut's artifact was deleted) invoke the compiler for
\* bolt and nut, for nothing, and for nut only; the cache the first run
\* persists has exactly two entries.
C4_BoltAndNutExample ==
    /\ (lastRun.ran /\ ex = 1) =>
          /\ lastRun.invoked = <<Bolt, Nut>>
          /\ cacheFile.kind = "object"
          /\ Cardinality(DOMAIN cacheFile.sc) = 2
    /\ (lastRun.ran /\ ex = 2) => lastRun.invoked = <<>>
    /\ (lastRun.ran /\ ex = 4) => lastRun.invoked = <<Nut>>

C4_Witness == lastRun.ran /\ ex = 4 /\ lastRun.skipped = <<Bolt>>

C6_CompilerFailureIsNotFatal ==
    (lastRun.ran /\ \E n \in Names : lastRun.out[n] # "ok")
        => /\ lastRun.raisedBy = "none"
           /\ Range(lastRun.visited) = PartNames(parts)
           /\ lastRun.written # "none"

\* C7: a build_stl run that finds an unparseable cache file does exactly what
\* it does without a cache file: reading raises nothing, no part is skipped,
\* the same compiles are made with the same results, and the cache it writes
\* is the one it would write then.
C7_MalformedCacheAsEmpty ==
    [][(runs' = runs + 1 /\ cacheFile.kind = "garbage") =>
          LET e == RunBuildStl(parts, scad, stl, NoCacheFile, lastRun'.force, lastRun'.out, lastRun'.openOk)
          IN /\ lastRun'.raisedBy # "read"
             /\ lastRun'.skipped = <<>>
             /\ lastRun'.invoked = e.invoked
             /\ lastRun'.visited = e.visited
             /\ lastRun'.raisedBy = e.raisedBy
             /\ lastRun'.written = e.written
             /\ scad' = e.scad
             /\ stl' = e.stl
             /\ (lastRun'.written \in {"ok", "partial"} => cacheFile' = e.cacheFile)]_vars

C7_Witness ==
    /\ lastRun.ran /\ ~lastRun.force
    /\ lastRun.cacheIn = "garbage"
    /\ lastRun.prev.good /\ lastRun.sameParts
    /\ lastRun.stlChanged = {} /\ lastRun.scadChanged = {}
    /\ lastRun.invoked = <<Bolt, Nut>>
    /\ lastRun.written = "ok"
    /\ cacheFile.kind = "object"

C9_CacheFileAlwaysComplete ==
    (lastRun.ran /\ lastRun.raisedBy = "none" /\ lastRun.openOk) =>
        /\ cacheFile.kind = "object"
        /\ \A n \in Range(lastRun.invoked) :
              /\ StoreKey(n) \in DOMAIN cacheFile.sc
              /\ cacheFile.sc[StoreKey(n)].kind = "str"

\* C10: add_part with a callable that raises propagates no exception and
\* leaves the registry as it was.
C10_FailedRegistrationLeavesRegistry ==
    [][(ret'.op = "add_part" /\ ret'.callRaised) => (parts' = parts /\ ~ret'.raised)]_vars

C10_Witness ==
    /\ ret.op = "add_part" /\ ret.callRaised /\ ~ret.raised
    /\ Len(parts) = 1
    /\ runs = 1

\* C11: over any sequence of calls of run, on any instances, top level or
\* re-entrant, the body of run (parsing and dispatch) is executed at most
\* once, by the first call; every later call returns at the guard and
\* dispatches nothing.
C11_RunBodyAtMostOnce ==
    /\ Len(dispatched) <= 1
    /\ \A k \in 1..Len(rlog) : rlog[k].did = "body" => k = 1
    /\ Cardinality({k \in 1..Len(stack) : stack[k].pc # "guard"}) <= 1
    /\ Len(rlog) >= 1 => single_run_guard.cls

C11_Witness ==
    /\ Len(rlog) = MaxCalls
    /\ Len(dispatched) = 1
    /\ rlog[1].did = "body"
    /\ \E k \in 2..Len(rlog) : rlog[k].inst # rlog[1].inst /\ rlog[k].depth = 2
    /\ \E k \in 2..Len(rlog) : rlog[k].inst = rlog[1].inst /\ rlog[k].depth = 1
    /\ \A k \in 2..Len(rlog) : rlog[k].did = "noop"

\* C12: a rebuild attempt whose launch fails on the first call and again on
\* the retry leaves the watcher alive (watch is still in its try body, to
\* rebuild on the next change), for the startup rebuild as for change
\* triggered ones.
C12_PermanentFailureKeepsWatching ==
    \A k \in 1..Len(wlog) : wlog[k].ended = "raised" => wlog[k].alive

\* C13: once watch has been left stop_watching has been called exactly once,
\* not before, and stop_watching is called only on a watcher that
\* start_watching has started.
C13_StopMatchesStart ==
    /\ Stmt = "left" => mw.stops = 1
    /\ Stmt # "left" => mw.stops = 0
    /\ mw.stops <= mw.starts

\* reading a description file back: the first index of byte b in s (0: none)
IndexOf(s, b) ==
    IF \E i \in 1..Len(s) : s[i] = b
    THEN CHOOSE i \in 1..Len(s) : s[i] = b /\ \A j \in 1..(i - 1) : s[j] # b
    ELSE 0
FirstLine(s) == SubSeq(s, 1, IndexOf(s, 10))
AfterLine(s) == SubSeq(s, IndexOf(s, 10) + 1, Len(s))
IsDigits(s) == s # <<>> /\ \A i \in 1..Len(s) : s[i] \in 48..57
RECURSIVE DigitsValue(_)
DigitsValue(s) == IF s = <<>> THEN 0 ELSE DigitsValue(SubSeq(s, 1, Len(s) - 1)) * 10 + (s[Len(s)] - 48)
\* the value, in 1/10000, that a line "$<key>=<digits>.<4 digits>;" with a
\* newline after it assigns; -1 when the line is not of that form
ConfigValue(line, key) ==
    LET n == Len(line)
        k == Len(key)
    IN IF /\ n >= k + 10
          /\ line[1] = 36
          /\ SubSeq(line, 2, k + 1) = key
          /\ line[k + 2] = 61
          /\ line[n] = 10
          /\ line[n - 1] = 59
          /\ line[n - 6] = 46
          /\ IsDigits(SubSeq(line, k + 3, n - 7))
          /\ IsDigits(SubSeq(line, n - 5, n - 2))
          /\ (n - 7 > k + 3 => line[k + 3] # 48)
       THEN DigitsValue(SubSeq(line, k + 3, n - 7)) * 10000 + DigitsValue(SubSeq(line, n - 5, n - 2))
       ELSE -1
\* bytes is three configuration lines for $fa, $fs, $fn with the values of c,
\* followed by the serialized geometry g and nothing else
WellFormedDescription(bytes, c, g) ==
    LET l1 == FirstLine(bytes)
        r1 == AfterLine(bytes)
        l2 == FirstLine(r1)
        r2 == AfterLine(r1)
        l3 == FirstLine(r2)
        r3 == AfterLine(r2)
    IN /\ ConfigValue(l1, <<102, 97>>) = c.fa
       /\ ConfigValue(l2, <<102, 115>>) = c.fs
       /\ ConfigValue(l3, <<102, 110>>) = c.fn
       /\ r3 = To_string(g)

\* C14: after build_scad on a project with N parts (names are unique) the
\* description file of every part exists and consists of the three
\* configuration lines with the project's values followed by the part's
\* serialized geometry, no other file was written, and when the parts are
\* the ones of the build_scad call before, every file has the bytes that
\* call left.
C14_BuildScadWritesEveryPartOnce ==
    ret.op = "build_scad" =>
        /\ Cardinality(PartNames(parts)) = Len(parts)
        /\ \A i \in 1..Len(parts) :
              /\ scad[parts[i].name].exists
              /\ scad[parts[i].name].readable
              /\ WellFormedDescription(scad[parts[i].name].bytes, cfg, parts[i].model)
        /\ \A n \in Names \ PartNames(parts) : scad[n] = emit.before[n]
        /\ (emit.n >= 2 /\ emit.parts0 = parts) =>
              \A n \in PartNames(parts) : scad[n] = emit.after0[n]

C14_Witness ==
    /\ ret.op = "build_scad"
    /\ Len(parts) = 2
    /\ emit.n = 2
    /\ emit.parts0 = parts
    /\ emit.before # scad
    /\ cfg.fa = 120000
    /\ cfg.fn = 1000000

\* the launches of the running call of real_scad_generator, the one in flight
\* included
LaunchesNow ==
    cb.launches \o (IF child = "running" THEN <<[how |-> "running", afterSleep |-> cb.slept]>> ELSE <<>>)

\* C15: two pairs of file contents that differ in the description or in the
\* artifact (a pair and its swap with different contents included) are fed
\* to the digest as different byte streams, so their fingerprints differ,
\* also when contents contain the separator bytes.
C15_StreamIsInjective ==
    (Len(hout) = 2 /\ hin[1] # hin[2]) => hout[1] # hout[2]

\* C16: a run with force=false skips a part only when the part's artifact
\* holds what the compiler writes for the part's description as it is; a
\* failed compile that left an older artifact in place does not make a later
\* run skip the part.
C16_SkipsOnlyCompiledArtifacts ==
    (lastRun.ran /\ ~lastRun.force) =>
        \A n \in Range(lastRun.skipped) : stl[n] = FileOf(Openscad(scad[n].bytes))

\* C17: when start_watching is called exactly one rebuild has been made, the
\* startup one, with a build-scad subprocess launched and waited for; every
\* later rebuild is made by a change callback of the started watcher; a
\* subprocess is in flight only inside a call of the callback, which returns
\* only after the subprocess has ended.
C17_OneRebuildThenChangeCallbacks ==
    /\ mw.starts <= 1
    /\ mw.starts = 1 =>
          /\ mw.rebuildsAtStart = 1
          /\ wlog[1].by = "startup"
          /\ wlog[1].ended = "returned"
          /\ wlog[1].cmd[Len(wlog[1].cmd)] = "build-scad"
    /\ \A k \in 2..Len(wlog) : wlog[k].by = "change" /\ mw.starts = 1
    /\ (cb.active /\ cb.by = "change") => mw.watching /\ Len(wlog) >= 1
    /\ child = "running" => cb.active /\ cb.pc \in {"first", "second"}
    /\ \A k \in 1..Len(wlog) :
          wlog[k].ended = "returned" =>
              /\ wlog[k].launches # <<>>
              /\ wlog[k].launches[Len(wlog[k].launches)].how \in {"exit0", "exit1"}

C17_Witness ==
    /\ Len(wlog) = 3
    /\ mw.watching
    /\ wlog[1].ended = "returned"
    /\ wlog[2].ended = "returned"
    /\ wlog[3].ended = "returned"
    /\ wargs.debug
    /\ child = "none"

\* a sequence of launches of one rebuild attempt obeys the retry rule
RetryRule(a) ==
    /\ Len(a) <= 2
    /\ \A k \in 1..Len(a) :
          IF k = 1 THEN ~a[k].afterSleep
          ELSE a[k - 1].how = "spawn" /\ a[k].afterSleep

\* C18: a rebuild attempt launches the subprocess at most twice, the second
\* time only when the first launch raised a spawn error and after the sleep;
\* a subprocess that was launched and ended, with whatever code, is not
\* launched again in the attempt.
C18_AtMostOneRetryAfterSpawnError ==
    /\ RetryRule(LaunchesNow)
    /\ \A k \in 1..Len(wlog) : RetryRule(wlog[k].launches)

C18_Witness ==
    /\ Len(wlog) = 3
    /\ \E k \in 1..3 : Len(wlog[k].launches) = 2 /\ wlog[k].launches[2].how = "exit1"
    /\ \E k \in 1..3 : Len(wlog[k].launches) = 2 /\ wlog[k].launches[2].how = "spawn"
    /\ \E k \in 1..3 : Len(wlog[k].launches) = 1 /\ wlog[k].launches[1].how = "exit1"

\* C19: whatever the cache file holds (nothing, unparseable text, a JSON
\* object, a JSON value that is not an object, an object whose scad_cache is
\* not an object), _read_cache returns a mapping and build_stl raises nothing
\* because of the cache.
C19_AnyCacheFileIsTolerated ==
    lastRun.ran =>
        /\ lastRun.readType = "dict"
        /\ lastRun.raisedBy \notin {"read", "cache"}

\* the scad_cache keys build_stl assigned in the run that just ended
StoredKeys == {StoreKey(n) : n \in Range(lastRun'.invoked)}

====
